---- MODULE Spec2Model ----
(***************************************************************************)
(* Model of the fragment component of uriparse (src/src/fragment.rs):      *)
(* validation (try_from), normalization, encoding-aware equality and       *)
(* hashing of a percent-encodable URI component.                           *)
(*                                                                         *)
(* Bytes are integers 0..255.  A Fragment is a record                      *)
(*   [fragment : Seq(byte), normalized : BOOLEAN, cow : {Borrowed, Owned}] *)
(* An Option<Fragment> is a sequence of length 0 (None) or 1 (Some).       *)
(* An Option<u8> is a byte or None (-1).                                   *)
(***************************************************************************)
EXTENDS Integers, Sequences, FiniteSets, TLC

VARIABLES input, input2, result, self, other, last

vars == <<input, input2, result, self, other, last>>

\* ------------------------------------------------------------------ bounds
\* longest candidate input of the single-value specification
MaxLen == 5
\* longest candidate inputs of the two-value specification
MaxSelfLen == 3
MaxOtherLen == 3

\* candidate input bytes:  ' '  '%'  '.'  '2'  '5'  'E'  'e'
Bytes == {32, 37, 46, 50, 53, 69, 101}

SeqsUpTo(S, n) == UNION {[1..k -> S] : k \in 0..n}

None == -1

\* -------------------------------------------------------- character tables
FRAGMENT_CHAR_MAP ==
 <<   0,   0,   0,   0,   0,   0,   0,   0,   0,   0,   0,   0,   0,   0,   0,   0,
      0,   0,   0,   0,   0,   0,   0,   0,   0,   0,   0,   0,   0,   0,   0,   0,
      0,  33,   0,   0,  36,  37,  38,  39,  40,  41,  42,  43,  44,  45,  46,  47,
     48,  49,  50,  51,  52,  53,  54,  55,  56,  57,  58,  59,   0,  61,   0,  63,
     64,  65,  66,  67,  68,  69,  70,  71,  72,  73,  74,  75,  76,  77,  78,  79,
     80,  81,  82,  83,  84,  85,  86,  87,  88,  89,  90,   0,   0,   0,   0,  95,
      0,  97,  98,  99, 100, 101, 102, 103, 104, 105, 106, 107, 108, 109, 110, 111,
    112, 113, 114, 115, 116, 117, 118, 119, 120, 121, 122,   0,   0,   0, 126,   0,
      0,   0,   0,   0,   0,   0,   0,   0,   0,   0,   0,   0,   0,   0,   0,   0,
      0,   0,   0,   0,   0,   0,   0,   0,   0,   0,   0,   0,   0,   0,   0,   0,
      0,   0,   0,   0,   0,   0,   0,   0,   0,   0,   0,   0,   0,   0,   0,   0,
      0,   0,   0,   0,   0,   0,   0,   0,   0,   0,   0,   0,   0,   0,   0,   0,
      0,   0,   0,   0,   0,   0,   0,   0,   0,   0,   0,   0,   0,   0,   0,   0,
      0,   0,   0,   0,   0,   0,   0,   0,   0,   0,   0,   0,   0,   0,   0,   0,
      0,   0,   0,   0,   0,   0,   0,   0,   0,   0,   0,   0,   0,   0,   0,   0,
      0,   0,   0,   0,   0,   0,   0,   0,   0,   0,   0,   0,   0,   0,   0,   0 >>

\* table lookup TABLE[byte as usize]
At(table, byte) == table[byte + 1]

\* ALPHA / DIGIT / '-' / '.' / '_' / '~' map to themselves, all else to 0
UNRESERVED_CHAR_MAP ==
  [i \in 1..256 |->
     LET b == i - 1 IN
     IF \/ b \in 65..90 \/ b \in 97..122 \/ b \in 48..57
        \/ b \in {45, 46, 95, 126}
     THEN b ELSE 0]

\* ------------------------------------------------- percent-triplet decoder
\* one hex digit: its value and whether it is canonical (not a lowercase a-f)
hex_digit_to_decimal(digit) ==
  IF digit \in 65..70 THEN [ok |-> TRUE, value |-> digit - 65 + 10, uppercase |-> TRUE]
  ELSE IF digit \in 97..102 THEN [ok |-> TRUE, value |-> digit - 97 + 10, uppercase |-> FALSE]
  ELSE IF digit \in 48..57 THEN [ok |-> TRUE, value |-> digit - 48, uppercase |-> TRUE]
  ELSE [ok |-> FALSE, value |-> 0, uppercase |-> FALSE]

\* Ok((hex_value, uppercase)) or Err(()) from the two optional bytes after '%'
get_percent_encoded_value(first_digit, second_digit) ==
  IF first_digit = None \/ second_digit = None
  THEN [ok |-> FALSE, hex_value |-> 0, uppercase |-> FALSE]
  ELSE LET f == hex_digit_to_decimal(first_digit)
           s == hex_digit_to_decimal(second_digit)
       IN IF f.ok /\ s.ok
          THEN [ok |-> TRUE, hex_value |-> (f.value * 16 + s.value) % 256,
                uppercase |-> f.uppercase /\ s.uppercase]
          ELSE [ok |-> FALSE, hex_value |-> 0, uppercase |-> FALSE]

\* bytes.get(i).cloned() / the i-th item an iterator would yield
Get(bytes, i) == IF i \in 1..Len(bytes) THEN bytes[i] ELSE None

to_ascii_uppercase(b) == IF b \in 97..122 THEN b - 32 ELSE b

\* ---------------------------------------------------------- construction
\* variant of the loop that looks at the hex case only
RECURSIVE try_from_loop_hexcase_only(_, _, _)
try_from_loop_hexcase_only(value, i, normalized) ==
  IF i > Len(value) THEN [tag |-> "Ok", normalized |-> normalized]
  ELSE LET byte == value[i]
           class == At(FRAGMENT_CHAR_MAP, byte)
       IN IF class = 0 THEN [tag |-> "InvalidCharacter", normalized |-> FALSE]
          ELSE IF class = 37
          THEN LET pe == get_percent_encoded_value(Get(value, i + 1), Get(value, i + 2))
               IN IF pe.ok
                  THEN try_from_loop_hexcase_only(value, i + 3,
                         IF ~pe.uppercase THEN FALSE ELSE normalized)
                  ELSE [tag |-> "InvalidPercentEncoding", normalized |-> FALSE]
          ELSE try_from_loop_hexcase_only(value, i + 1, normalized)

\* the while-let loop of try_from: i is the next position of the iterator,
\* normalized the running flag
RECURSIVE try_from_loop(_, _, _)
try_from_loop(value, i, normalized) ==
  IF i > Len(value) THEN [tag |-> "Ok", normalized |-> normalized]
  ELSE LET byte == value[i]
           class == At(FRAGMENT_CHAR_MAP, byte)
       IN IF class = 0 THEN [tag |-> "InvalidCharacter", normalized |-> FALSE]
          ELSE IF class = 37
          THEN LET pe == get_percent_encoded_value(Get(value, i + 1), Get(value, i + 2))
               IN IF pe.ok
                  THEN try_from_loop(value, i + 3,
                         IF ~pe.uppercase \/ At(UNRESERVED_CHAR_MAP, pe.hex_value) # 0
                         THEN FALSE ELSE normalized)
                  ELSE [tag |-> "InvalidPercentEncoding", normalized |-> FALSE]
          ELSE try_from_loop(value, i + 1, normalized)

\* variant that reports every failure as InvalidCharacter
try_from_one_error(value) ==
  LET r == try_from_loop(value, 1, TRUE)
  IN IF r.tag = "Ok"
     THEN [tag |-> "Ok",
           value |-> <<[fragment |-> value, normalized |-> r.normalized, cow |-> "Borrowed"]>>]
     ELSE [tag |-> "InvalidCharacter", value |-> <<>>]

\* variant that stores the input folded to upper case
try_from_case_folding(value) ==
  LET r == try_from_loop(value, 1, TRUE)
  IN IF r.tag = "Ok"
     THEN [tag |-> "Ok",
           value |-> <<[fragment |-> [i \in 1..Len(value) |-> to_ascii_uppercase(value[i])],
                        normalized |-> r.normalized, cow |-> "Owned"]>>]
     ELSE [tag |-> r.tag, value |-> <<>>]

\* Result<Fragment, InvalidFragment>: tag is "Ok" or the error, value the
\* Option<Fragment> carried by Ok
try_from(value) ==
  LET r == try_from_loop(value, 1, TRUE)
  IN IF r.tag = "Ok"
     THEN [tag |-> "Ok",
           value |-> <<[fragment |-> value, normalized |-> r.normalized, cow |-> "Borrowed"]>>]
     ELSE [tag |-> r.tag, value |-> <<>>]

\* --------------------------------------------------------------- accessors
as_str(f) == f.fragment

is_normalized(f) == f.normalized

into_owned(f) == [fragment |-> f.fragment, normalized |-> f.normalized, cow |-> "Owned"]

\* #[derive(Clone)]
clone(f) == f

\* ----------------------------------------------------------- normalization
\* single read/write pass over the buffer: out is the part already written
RECURSIVE normalize_bytes_loop(_, _, _)
normalize_bytes_loop(bytes, read_index, out) ==
  IF read_index > Len(bytes) THEN out
  ELSE LET byte == bytes[read_index] IN
       IF byte = 37
       THEN LET first_digit == Get(bytes, read_index + 1)
                second_digit == Get(bytes, read_index + 2)
                pe == get_percent_encoded_value(first_digit, second_digit)
            IN IF At(UNRESERVED_CHAR_MAP, pe.hex_value) # 0
               THEN normalize_bytes_loop(bytes, read_index + 3, Append(out, pe.hex_value))
               ELSE normalize_bytes_loop(bytes, read_index + 3,
                      out \o <<37, to_ascii_uppercase(first_digit),
                                   to_ascii_uppercase(second_digit)>>)
       ELSE normalize_bytes_loop(bytes, read_index + 1, Append(out, byte))

normalize_bytes(bytes) == normalize_bytes_loop(bytes, 1, <<>>)

\* variant of the pass that unescapes every triplet
RECURSIVE normalize_bytes_decode_all(_, _, _)
normalize_bytes_decode_all(bytes, read_index, out) ==
  IF read_index > Len(bytes) THEN out
  ELSE LET byte == bytes[read_index] IN
       IF byte = 37
       THEN LET pe == get_percent_encoded_value(Get(bytes, read_index + 1),
                                                Get(bytes, read_index + 2))
            IN normalize_bytes_decode_all(bytes, read_index + 3, Append(out, pe.hex_value))
       ELSE normalize_bytes_decode_all(bytes, read_index + 1, Append(out, byte))

\* variant of normalize that unescapes every triplet
normalize_decode_all(f) ==
  IF ~f.normalized
  THEN [fragment |-> normalize_bytes_decode_all(f.fragment, 1, <<>>),
        normalized |-> f.normalized, cow |-> "Owned"]
  ELSE f

\* variant of normalize that uppercases the whole buffer
normalize_upper_all(f) ==
  IF ~f.normalized
  THEN [fragment |-> [i \in 1..Len(normalize_bytes(f.fragment)) |->
                        to_ascii_uppercase(normalize_bytes(f.fragment)[i])],
        normalized |-> f.normalized, cow |-> "Owned"]
  ELSE f

\* variant of normalize with the guard inverted
normalize_guard_inverted(f) ==
  IF f.normalized
  THEN [fragment |-> normalize_bytes(f.fragment), normalized |-> f.normalized, cow |-> "Owned"]
  ELSE f

normalize(f) ==
  IF ~f.normalized
  THEN [fragment |-> normalize_bytes(f.fragment), normalized |-> f.normalized, cow |-> "Owned"]
  ELSE f

\* ------------------------------------------------------ equality and hash
to_ascii_lowercase(b) == IF b \in 65..90 THEN b + 32 ELSE b

byte_equal(l, r, case_sensitive) ==
  IF case_sensitive THEN l = r ELSE to_ascii_lowercase(l) = to_ascii_lowercase(r)

\* lock-step walk of both operands; i and j are the iterator positions
RECURSIVE percent_encoded_equality_loop(_, _, _, _, _)
percent_encoded_equality_loop(left, right, i, j, case_sensitive) ==
  LET l == Get(left, i)
      r == Get(right, j)
  IN IF l = None /\ r = None THEN TRUE
     ELSE IF l = None \/ r = None THEN FALSE
     ELSE LET lpe == get_percent_encoded_value(Get(left, i + 1), Get(left, i + 2))
              rpe == get_percent_encoded_value(Get(right, j + 1), Get(right, j + 2))
          IN IF l = 37 /\ r = 37
             THEN /\ lpe.ok /\ rpe.ok
                  /\ byte_equal(lpe.hex_value, rpe.hex_value, case_sensitive)
                  /\ percent_encoded_equality_loop(left, right, i + 3, j + 3, case_sensitive)
             ELSE IF l = 37
             THEN /\ lpe.ok
                  /\ byte_equal(lpe.hex_value, r, case_sensitive)
                  /\ percent_encoded_equality_loop(left, right, i + 3, j + 1, case_sensitive)
             ELSE IF r = 37
             THEN /\ rpe.ok
                  /\ byte_equal(l, rpe.hex_value, case_sensitive)
                  /\ percent_encoded_equality_loop(left, right, i + 1, j + 3, case_sensitive)
             ELSE /\ byte_equal(l, r, case_sensitive)
                  /\ percent_encoded_equality_loop(left, right, i + 1, j + 1, case_sensitive)

percent_encoded_equality(left, right, case_sensitive) ==
  percent_encoded_equality_loop(left, right, 1, 1, case_sensitive)

\* the values written to the hasher, in order: every decoded byte, then the
\* number of decoded bytes
RECURSIVE percent_encoded_hash_loop(_, _, _, _)
percent_encoded_hash_loop(value, i, state, case_sensitive) ==
  IF i > Len(value) THEN Append(state, Len(state))
  ELSE LET byte == value[i] IN
       IF byte = 37
       THEN LET pe == get_percent_encoded_value(Get(value, i + 1), Get(value, i + 2))
            IN percent_encoded_hash_loop(value, i + 3,
                 Append(state, IF case_sensitive THEN pe.hex_value
                               ELSE to_ascii_lowercase(pe.hex_value)),
                 case_sensitive)
       ELSE percent_encoded_hash_loop(value, i + 1,
              Append(state, IF case_sensitive THEN byte ELSE to_ascii_lowercase(byte)),
              case_sensitive)

percent_encoded_hash(value, case_sensitive) ==
  percent_encoded_hash_loop(value, 1, <<>>, case_sensitive)

\* variant that feeds the stored bytes to the hasher undecoded
hash_raw_bytes(f) == Append(f.fragment, Len(f.fragment))

\* impl Hash for Fragment
hash(f) == percent_encoded_hash(f.fragment, TRUE)

\* variant that compares without regard to ASCII case
eq_ignore_case(f, g) == percent_encoded_equality(f.fragment, g.fragment, FALSE)

\* impl PartialEq for Fragment
eq(f, g) == percent_encoded_equality(f.fragment, g.fragment, TRUE)

\* impl PartialEq<[u8]> / PartialEq<str> for Fragment
eq_bytes(f, bytes) == percent_encoded_equality(f.fragment, bytes, TRUE)

\* ------------------------------------------------------------------ state
NoRet == [eq |-> FALSE, hash |-> <<>>]

Init ==
  /\ input \in SeqsUpTo(Bytes, MaxLen)
  /\ input2 = <<>>
  /\ result = "none"
  /\ self = <<>>
  /\ other = <<>>
  /\ last = [op |-> "init", ret |-> NoRet]

InitPair ==
  /\ input \in SeqsUpTo(Bytes, MaxSelfLen)
  /\ input2 \in SeqsUpTo(Bytes, MaxOtherLen)
  /\ result = "none"
  /\ self = <<>>
  /\ other = <<>>
  /\ last = [op |-> "init", ret |-> NoRet]

\* let self = Fragment::try_from(input)
TryFrom ==
  /\ result = "none"
  /\ LET r == try_from(input)
     IN /\ result' = r.tag
        /\ self' = r.value
  /\ last' = [op |-> "try_from", ret |-> NoRet]
  /\ UNCHANGED <<input, input2, other>>

\* let other = Fragment::try_from(input2).unwrap()
TryFromOther ==
  /\ other = <<>>
  /\ LET r == try_from(input2)
     IN /\ r.tag = "Ok"
        /\ other' = r.value
  /\ last' = [op |-> "try_from_other", ret |-> NoRet]
  /\ UNCHANGED <<input, input2, result, self>>

\* let self = self.into_owned()
IntoOwned ==
  /\ self # <<>>
  /\ self[1].cow = "Borrowed"
  /\ self' = <<into_owned(self[1])>>
  /\ last' = [op |-> "into_owned", ret |-> NoRet]
  /\ UNCHANGED <<input, input2, result, other>>

\* let other = self.clone()
Clone ==
  /\ self # <<>>
  /\ other = <<>>
  /\ other' = <<clone(self[1])>>
  /\ last' = [op |-> "clone", ret |-> NoRet]
  /\ UNCHANGED <<input, input2, result, self>>

\* self.normalize()
Normalize ==
  /\ self # <<>>
  /\ self' = <<normalize(self[1])>>
  /\ last' = [op |-> "normalize", ret |-> NoRet]
  /\ UNCHANGED <<input, input2, result, other>>

\* other.normalize()
NormalizeOther ==
  /\ other # <<>>
  /\ other' = <<normalize(other[1])>>
  /\ last' = [op |-> "normalize_other", ret |-> NoRet]
  /\ UNCHANGED <<input, input2, result, self>>

\* self == other
Eq ==
  /\ self # <<>>
  /\ other # <<>>
  /\ last' = [op |-> "eq", ret |-> [eq |-> eq(self[1], other[1]), hash |-> <<>>]]
  /\ UNCHANGED <<input, input2, result, self, other>>

\* self == input   (the bytes / str the value was built from)
EqBytes ==
  /\ self # <<>>
  /\ last' = [op |-> "eq_bytes", ret |-> [eq |-> eq_bytes(self[1], input), hash |-> <<>>]]
  /\ UNCHANGED <<input, input2, result, self, other>>

\* self.hash(&mut state)
Hash ==
  /\ self # <<>>
  /\ last' = [op |-> "hash", ret |-> [eq |-> FALSE, hash |-> hash(self[1])]]
  /\ UNCHANGED <<input, input2, result, self, other>>

Next ==
  \/ TryFrom
  \/ IntoOwned
  \/ Clone
  \/ Normalize
  \/ Eq
  \/ EqBytes
  \/ Hash

Spec == Init /\ [][Next]_vars

NextPair ==
  \/ TryFrom
  \/ TryFromOther
  \/ Normalize
  \/ NormalizeOther
  \/ Eq
  \/ Hash

SpecPair == InitPair /\ [][NextPair]_vars

TypeOK ==
  /\ result \in {"none", "Ok", "InvalidCharacter", "InvalidPercentEncoding"}
  /\ Len(self) <= 1
  /\ Len(other) <= 1
  /\ (result = "Ok") <=> (self # <<>>)

\* ------------------------------------------------- reference definitions
IsHex(b) == b \in (48..57) \cup (65..70) \cup (97..102)

IsLowerHex(b) == b \in 97..102

HexVal(b) == IF b \in 48..57 THEN b - 48 ELSE IF b \in 65..70 THEN b - 55 ELSE b - 87

IsUnreserved(b) ==
  b \in (65..90) \cup (97..122) \cup (48..57) \cup {45, 46, 95, 126}

\* a well-formed triplet starts at position i of s
TripletAt(s, i) ==
  /\ s[i] = 37
  /\ i + 2 <= Len(s)
  /\ IsHex(s[i + 1])
  /\ IsHex(s[i + 2])

TripletValue(s, i) == 16 * HexVal(s[i + 1]) + HexVal(s[i + 2])

\* position i of s is one of the two hex digits of a triplet
InTriplet(s, i) ==
  \/ i > 1 /\ s[i - 1] = 37
  \/ i > 2 /\ s[i - 2] = 37

\* position i of s is where validation has to stop
Bad(s, i) ==
  \/ At(FRAGMENT_CHAR_MAP, s[i]) = 0
  \/ s[i] = 37 /\ ~TripletAt(s, i)

ExpectedResult(s) ==
  LET bad == {i \in 1..Len(s) : Bad(s, i)}
  IN IF bad = {} THEN "Ok"
     ELSE LET first == CHOOSE i \in bad : \A j \in bad : i <= j
          IN IF s[first] = 37 THEN "InvalidPercentEncoding" ELSE "InvalidCharacter"

\* every byte is a legal unescaped fragment byte or belongs to a triplet
WellFormed(s) ==
  \A i \in 1..Len(s) :
    /\ s[i] < 128
    /\ At(FRAGMENT_CHAR_MAP, s[i]) # 0
    /\ s[i] = 37 => TripletAt(s, i)

\* no triplet of s has a lowercase hex digit or encodes an unreserved byte
Canonical(s) ==
  \A i \in 1..Len(s) :
    s[i] = 37 =>
      /\ ~IsLowerHex(s[i + 1])
      /\ ~IsLowerHex(s[i + 2])
      /\ ~IsUnreserved(TripletValue(s, i))

\* concatenation of piece[1], ..., piece[n]
RECURSIVE Flatten(_, _)
Flatten(piece, n) == IF n = 0 THEN <<>> ELSE Flatten(piece, n - 1) \o piece[n]

\* the byte stream a well-formed s stands for
Decoded(s) ==
  Flatten([i \in 1..Len(s) |->
             IF s[i] = 37 THEN <<TripletValue(s, i)>>
             ELSE IF InTriplet(s, i) THEN <<>>
             ELSE <<s[i]>>], Len(s))

\* the canonical spelling of a well-formed s
NormalForm(s) ==
  Flatten([i \in 1..Len(s) |->
             IF s[i] = 37
             THEN IF IsUnreserved(TripletValue(s, i))
                  THEN <<TripletValue(s, i)>>
                  ELSE <<37, to_ascii_uppercase(s[i + 1]), to_ascii_uppercase(s[i + 2])>>
             ELSE IF InTriplet(s, i) THEN <<>>
             ELSE <<s[i]>>], Len(s))

HasTriplet(s) == \E i \in 1..Len(s) : s[i] = 37

\* ------------------------------------------------------------ properties

\* C1: two fragments compare equal exactly when their decoded byte streams
\* are identical; hex case inside an escape is not significant, the case of
\* bytes outside an escape is.
C1_EqIffDecodedEqual ==
  (self # <<>> /\ other # <<>>) =>
    /\ eq(self[1], other[1]) <=> (Decoded(as_str(self[1])) = Decoded(as_str(other[1])))
    /\ last.op = "eq" => (last.ret.eq <=> (Decoded(as_str(self[1])) = Decoded(as_str(other[1]))))

\* an equality call answered true for two different spellings
C1_Witness ==
  /\ last.op = "eq"
  /\ last.ret.eq
  /\ as_str(self[1]) # as_str(other[1])

\* C2: fragments that compare equal feed the same stream to the hasher,
\* whichever spelling each uses and whether or not either was normalized.
C2_EqImpliesSameHash ==
  (self # <<>> /\ other # <<>> /\ eq(self[1], other[1])) =>
    hash(self[1]) = hash(other[1])

\* a hash call on a normalized value that equals a differently spelled one
C2_Witness ==
  /\ last.op = "hash"
  /\ other # <<>>
  /\ self[1].cow = "Owned"
  /\ eq(self[1], other[1])
  /\ as_str(self[1]) # as_str(other[1])
  /\ last.ret.hash = hash(other[1])

\* C3: after one call to normalize(), is_normalized() returns true.
C3_NormalizeSetsFlag ==
  last.op = "normalize" => is_normalized(self[1])

\* C4: the content stored by a successful try_from is the input, byte for
\* byte.
C4_VerbatimPreservation ==
  (last.op = "try_from" /\ result = "Ok") => as_str(self[1]) = input

\* a successful try_from of an input that is not in canonical form
C4_Witness ==
  /\ last.op = "try_from"
  /\ result = "Ok"
  /\ HasTriplet(input)
  /\ ~Canonical(input)

\* C5: try_from fails with the error of the leftmost offending position:
\* InvalidCharacter for an illegal byte outside a triplet,
\* InvalidPercentEncoding for a '%' not followed by two hex digits; it
\* succeeds on every other input.
C5_FirstError ==
  result # "none" => result = ExpectedResult(input)

\* a truncated escape at the end of an otherwise legal input is rejected
C5_Witness ==
  /\ last.op = "try_from"
  /\ result = "InvalidPercentEncoding"
  /\ Len(input) >= 3
  /\ input[Len(input) - 1] = 37
  /\ \A i \in 1..(Len(input) - 2) : ~Bad(input, i)

\* C6: right after try_from the flag is true exactly when no triplet of the
\* input has a lowercase hex digit or decodes to an unreserved byte.
C6_FlagAtConstruction ==
  (last.op = "try_from" /\ result = "Ok") =>
    (is_normalized(self[1]) <=> Canonical(input))

\* an uppercase-hex escape of an unreserved byte yields a false flag
C6_Witness ==
  /\ last.op = "try_from"
  /\ result = "Ok"
  /\ ~is_normalized(self[1])
  /\ \A i \in 1..Len(input) :
       input[i] = 37 => ~IsLowerHex(input[i + 1]) /\ ~IsLowerHex(input[i + 2])

\* C7: normalize() on a value whose flag is false rewrites the content to
\* its canonical spelling (unreserved triplets unescaped, other triplets
\* uppercased, other bytes untouched and in order); on a value whose flag
\* is true it leaves the content unchanged.
C7_NormalizeContent ==
  [][Normalize =>
       as_str(self'[1]) = IF is_normalized(self[1]) THEN as_str(self[1])
                          ELSE NormalForm(as_str(self[1]))]_vars

\* a normalize call that unescaped one triplet and kept the bytes around it
C7_Witness ==
  /\ last.op = "normalize"
  /\ Len(input) > 3
  /\ Len(as_str(self[1])) = Len(input) - 2

\* C8: a normalized copy of x compares equal to x and to the input x was
\* built from, and hashes like x.
C8_NormalizePreservesMeaning ==
  /\ self # <<>> => eq_bytes(self[1], input)
  /\ (self # <<>> /\ other # <<>>) =>
       /\ eq(self[1], other[1])
       /\ eq(other[1], self[1])
       /\ hash(self[1]) = hash(other[1])
  /\ last.op \in {"eq", "eq_bytes"} => last.ret.eq

\* an equality call between a rewritten value and its untouched clone
C8_Witness ==
  /\ last.op = "eq"
  /\ last.ret.eq
  /\ as_str(other[1]) = input
  /\ as_str(self[1]) # input

\* C9: the stored flag agrees with the stored content in every reachable
\* state.
C9_FlagAgreesWithContent ==
  self # <<>> => (is_normalized(self[1]) <=> Canonical(as_str(self[1])))

\* C10: the stored content is always well-formed ASCII (legal unescaped
\* bytes and complete triplets), so re-validating it succeeds.
C10_ContentWellFormed ==
  /\ self # <<>> =>
       /\ WellFormed(as_str(self[1]))
       /\ try_from(as_str(self[1])).tag = "Ok"
  /\ other # <<>> =>
       /\ WellFormed(as_str(other[1]))
       /\ try_from(as_str(other[1])).tag = "Ok"

\* a normalize call that rewrote the content and kept a triplet
C10_Witness ==
  /\ last.op = "normalize"
  /\ as_str(self[1]) # input
  /\ HasTriplet(as_str(self[1]))
====
